---- MODULE Spec2Model ----
(***************************************************************************)
(* Store monitoring: uptime/downtime extrapolation over business hours     *)
(* (calculate_overlap, calculate_uptime_downtime, generate_store_report)   *)
(* and the report job pipeline (trigger_report, the single-worker          *)
(* executor running generate_report_and_update_db, get_report).            *)
(*                                                                         *)
(* Time is counted in whole minutes since Monday 2023-02-20 00:00 UTC, so  *)
(* that day number d has weekday d % 7 with 0 = Monday, as                 *)
(* datetime.weekday() numbers them.                                        *)
(***************************************************************************)
EXTENDS Integers, Sequences, FiniteSets, TLC

VARIABLES
    store_status,     \* table store_status: set of rows
    business_hours,   \* table business_hours: set of rows
    store_timezone,   \* table store_timezone: store_id -> timezone_str
    reports,          \* table reports: id -> [status, filename] (committed)
    queue,            \* report_executor's work queue (submitted, not started)
    workers,          \* report_executor's threads: worker -> frame of its run
    files,            \* CSV files present in the temp directory
    runs,             \* the runs started so far, in order, and what each did
    polled,           \* get_report: the last response returned, per job id
    call,             \* the last direct call of a helper: its arguments
    result            \* ... and what it returned

vars == <<store_status, business_hours, store_timezone, reports, queue,
          workers, files, runs, polled, call, result>>

dbVars == <<store_status, business_hours, store_timezone>>
jobVars == <<reports, queue, workers, files, runs, polled>>

-----------------------------------------------------------------------------
(* Bounds of the model *)

MaxObs == 2        \* rows of store_status per store
MaxRules == 1      \* rows of business_hours per store
MaxJobs == 2       \* calls of trigger_report

DayMinutes == 24 * 60
Day(n) == n * DayMinutes
At(d, h, m) == Day(d) + h * 60 + m

Stores == {"s1", "s2"}
Statuses == {"active", "inactive"}

\* The element of a one-element set. Only({F(x) : x \in {e}}) evaluates e
\* once, as a statement that assigns e to a local variable does.
Only(S) == CHOOSE x \in S : TRUE

Max(a, b) == IF a >= b THEN a ELSE b
Min(a, b) == IF a <= b THEN a ELSE b

-----------------------------------------------------------------------------
(* Timezones: pytz.timezone(name) and datetime.astimezone *)

\* America/Chicago entered daylight time on Sunday 2023-03-12 at 08:00 UTC
\* (02:00 CST became 03:00 CDT): day 20 of the model's calendar.
ChicagoDstStart == At(20, 8, 0)

KnownZones == {"UTC", "America/Chicago"}

UtcOffset(tz, t) ==
    IF tz = "America/Chicago"
    THEN (IF t < ChicagoDstStart THEN -(6 * 60) ELSE -(5 * 60))
    ELSE 0

\* An aware datetime: the instant and the wall-clock reading in its zone.
astimezone(t, tz) == [utc |-> t, wall |-> t + UtcOffset(tz, t)]

date(dt) == dt.wall \div DayMinutes
weekday(dt) == date(dt) % 7
\* dt.hour * 60 + dt.minute
MinuteOfDay(dt) == dt.wall % DayMinutes

-----------------------------------------------------------------------------
(* Helper functions *)

\* A time string "HH:MM:SS" is modelled by the sequence of its ':'-separated
\* fields; a string with another number of fields raises ValueError in the
\* unpacking, which is caught.
parse_time_to_minutes(time_str) ==
    IF Len(time_str) = 3
    THEN time_str[1] * 60 + time_str[2] + time_str[3] \div 60
    ELSE 0

calculate_overlap_swapped(business_start_minutes, business_end_minutes, interval_start_minutes, interval_end_minutes) ==
    Max(0, Max(business_end_minutes, interval_end_minutes)
               - Min(business_start_minutes, interval_start_minutes))

calculate_overlap(business_start_minutes, business_end_minutes, interval_start_minutes, interval_end_minutes) ==
    \* max(0, overlap_end - overlap_start)
    Max(0, Min(business_end_minutes, interval_end_minutes)
               - Max(business_start_minutes, interval_start_minutes))

DefaultTimezone == "America/Chicago"

get_store_timezone(store_id) ==
    IF store_id \in DOMAIN store_timezone
    THEN store_timezone[store_id]
    ELSE DefaultTimezone

get_business_hours(store_id, day_of_week) ==
    LET found == {r \in business_hours :
                     r.store_id = store_id /\ r.day_of_week = day_of_week}
    IN  IF found # {}
        THEN LET business_hours_record == CHOOSE r \in found : TRUE
             IN  <<parse_time_to_minutes(business_hours_record.start_time_local),
                   parse_time_to_minutes(business_hours_record.end_time_local)>>
        ELSE <<0, 24 * 60>>

-----------------------------------------------------------------------------
(* calculate_uptime_downtime *)

\* order_by(StoreStatus.timestamp_utc)
OrderByTimestamp(rows) ==
    CHOOSE ordered \in [1..Cardinality(rows) -> rows] :
        \A a, b \in DOMAIN ordered :
            /\ ordered[a] = ordered[b] => a = b
            /\ a < b => ordered[a].timestamp_utc <= ordered[b].timestamp_utc

\* The latest row at or before start_time, as a set: empty when there is none.
InitialStatus(store_id, start_time) ==
    LET before == {r \in store_status :
                      r.store_id = store_id /\ r.timestamp_utc <= start_time}
    IN  {r \in before : \A o \in before : o.timestamp_utc <= r.timestamp_utc}

StatusRecords(store_id, start_time, end_time) ==
    OrderByTimestamp({r \in store_status :
                         /\ r.store_id = store_id
                         /\ r.timestamp_utc >= start_time
                         /\ r.timestamp_utc <= end_time})

\* One call of calculate_overlap against the business hours of a weekday,
\* credited to uptime or downtime by the status.
Credit(store_id, day_of_week, interval_start_minutes, interval_end_minutes, status) ==
    Only({IF status = "active"
          THEN [uptime |-> overlap_minutes, downtime |-> 0]
          ELSE [uptime |-> 0, downtime |-> overlap_minutes] :
             overlap_minutes \in
                 {calculate_overlap(bh[1], bh[2],
                                    interval_start_minutes, interval_end_minutes) :
                     bh \in {get_business_hours(store_id, day_of_week)}}})

\* uptime += ..., downtime += ...
Plus(a, b) ==
    Only({[uptime |-> x.uptime + y.uptime, downtime |-> x.downtime + y.downtime] :
             x \in {a}, y \in {b}})

SegmentCredit_right_endpoint(store_id, current_point, next_point) ==
    Only({IF date(current_time) # date(next_time)
          THEN Plus(Credit(store_id, weekday(current_time),
                           MinuteOfDay(current_time), 23 * 60 + 59, current_status),
                    Credit(store_id, weekday(next_time),
                           0, MinuteOfDay(next_time), current_status))
          ELSE Credit(store_id, weekday(current_time),
                      MinuteOfDay(current_time), MinuteOfDay(next_time),
                      current_status) :
             current_time \in {current_point.time},
             next_time \in {next_point.time},
             current_status \in {next_point.status}})

SegmentCredit_one_weekday(store_id, current_point, next_point) ==
    Only({IF date(current_time) # date(next_time)
          THEN Plus(Credit(store_id, weekday(current_time),
                           MinuteOfDay(current_time), 23 * 60 + 59, current_status),
                    Credit(store_id, weekday(current_time),
                           0, MinuteOfDay(next_time), current_status))
          ELSE Credit(store_id, weekday(current_time),
                      MinuteOfDay(current_time), MinuteOfDay(next_time),
                      current_status) :
             current_time \in {current_point.time},
             next_time \in {next_point.time},
             current_status \in {current_point.status}})

\* The body of the loop over consecutive status points.
SegmentCredit(store_id, current_point, next_point) ==
    Only({IF date(current_time) # date(next_time)
          THEN Plus(Credit(store_id, weekday(current_time),
                           MinuteOfDay(current_time), 23 * 60 + 59, current_status),
                    Credit(store_id, weekday(next_time),
                           0, MinuteOfDay(next_time), current_status))
          ELSE Credit(store_id, weekday(current_time),
                      MinuteOfDay(current_time), MinuteOfDay(next_time),
                      current_status) :
             current_time \in {current_point.time},
             next_time \in {next_point.time},
             current_status \in {current_point.status}})

RECURSIVE SumSegments(_, _, _)
SumSegments(store_id, points, i) ==
    IF i >= Len(points) THEN [uptime |-> 0, downtime |-> 0]
    ELSE Plus(SegmentCredit(store_id, points[i], points[i + 1]),
              SumSegments(store_id, points, i + 1))

AllStatusPoints(store_id, start_time, end_time, initial_status, status_records) ==
    LET local_timezone == get_store_timezone(store_id)
        local_start_time == astimezone(start_time, local_timezone)
        local_end_time == astimezone(end_time, local_timezone)
        current_status == IF initial_status # {}
                          THEN (CHOOSE r \in initial_status : TRUE).status
                          ELSE "inactive"
        local_records == [k \in 1..Len(status_records) |->
                             [time |-> astimezone(status_records[k].timestamp_utc,
                                                  local_timezone),
                              status |-> status_records[k].status]]
        inside(p) == /\ p.time.utc > local_start_time.utc
                     /\ p.time.utc < local_end_time.utc
        last_status == IF Len(status_records) > 0
                       THEN status_records[Len(status_records)].status
                       ELSE current_status
    IN  <<[time |-> local_start_time, status |-> current_status]>>
        \o SelectSeq(local_records, inside)
        \o <<[time |-> local_end_time, status |-> last_status]>>

\* The function's body after its two queries.
Estimate(store_id, start_time, end_time, initial_status, status_records) ==
    LET local_timezone == get_store_timezone(store_id)
        local_start_time == astimezone(start_time, local_timezone)
        local_end_time == astimezone(end_time, local_timezone)
    IN  IF initial_status = {} /\ Len(status_records) = 0
        THEN Credit(store_id, weekday(local_start_time),
                    MinuteOfDay(local_start_time), MinuteOfDay(local_end_time),
                    "inactive")
        ELSE Only({SumSegments(store_id, all_status_points, 1) :
                      all_status_points \in
                          {AllStatusPoints(store_id, start_time, end_time,
                                           initial_status, status_records)}})

Raises(store_id) == get_store_timezone(store_id) \notin KnownZones

\* The pair (uptime, downtime) returned; the call raises
\* pytz.UnknownTimeZoneError instead when Raises(store_id).
calculate_uptime_downtime(store_id, start_time, end_time) ==
    Only({Estimate(store_id, start_time, end_time, initial_status, status_records) :
             initial_status \in {InitialStatus(store_id, start_time)},
             status_records \in {StatusRecords(store_id, start_time, end_time)}})

-----------------------------------------------------------------------------
(* The tables as loaded, and direct calls of the helpers *)

NoCall == [fn |-> "none", args |-> <<>>]
NoResult == [raised |-> FALSE]

\* Instants the rows and the windows of the direct calls are drawn from:
\* Monday 2023-03-06 09:00, 10:00 and 11:00 UTC, Tuesday 10:00, Thursday
\* 10:00, and 07:30 and 08:30 UTC on Sunday 2023-03-12, half an hour before
\* and after Chicago's clocks go forward.
CallTimes == {At(14, 9, 0), At(14, 10, 0), At(14, 11, 0), At(15, 10, 0),
              At(17, 10, 0), At(20, 7, 30), At(20, 8, 30)}

\* Sets of at most MaxObs rows of a store, one row per timestamp.
StatusRows(store_id, times) ==
    UNION {{{[store_id |-> store_id, timestamp_utc |-> t, status |-> f[t]] : t \in T}
               : f \in [T -> Statuses]}
           : T \in {X \in SUBSET times : Cardinality(X) <= MaxObs}}

HoursRow(store_id, day, from, to) ==
    [store_id |-> store_id, day_of_week |-> day,
     start_time_local |-> from, end_time_local |-> to]

\* Monday and Sunday 09:00-17:00, and a Monday rule that ends before it starts.
CandidateHours(store_id) ==
    {HoursRow(store_id, 0, <<9, 0, 0>>, <<17, 0, 0>>),
     HoursRow(store_id, 6, <<9, 0, 0>>, <<17, 0, 0>>),
     HoursRow(store_id, 0, <<22, 0, 0>>, <<2, 0, 0>>)}

\* Sets of at most MaxRules rows of a store, one row per day of the week.
HoursRows(store_id) ==
    {R \in SUBSET CandidateHours(store_id) :
        /\ Cardinality(R) <= MaxRules
        /\ \A a, b \in R : a.day_of_week = b.day_of_week => a = b}

\* No row (the default zone applies), a UTC row, a row naming no zone.
TimezoneRows(store_id) ==
    {<<>>, [s \in {store_id} |-> "UTC"], [s \in {store_id} |-> "Mars/Phobos"]}

max_workers_two == 1 + 1

\* report_executor = ThreadPoolExecutor(max_workers=1)
max_workers == 1

IdleFrame == [pc |-> "idle"]

InitJobs ==
    /\ reports = <<>>
    /\ queue = <<>>
    /\ workers = [w \in 1..max_workers |-> IdleFrame]
    /\ files = {}
    /\ runs = <<>>
    /\ polled = <<>>

InitCalls ==
    /\ call = NoCall
    /\ result = NoResult

\* Each behaviour makes one direct call.
CallOverlap(bs, be, is, ie) ==
    /\ call = NoCall
    /\ call' = [fn |-> "calculate_overlap", args |-> <<bs, be, is, ie>>]
    /\ result' = [raised |-> FALSE, value |-> calculate_overlap(bs, be, is, ie)]
    /\ UNCHANGED <<dbVars, jobVars>>

CallUptimeDowntime(store_id, start_time, end_time) ==
    /\ call = NoCall
    /\ start_time <= end_time
    /\ call' = [fn |-> "calculate_uptime_downtime",
                args |-> <<store_id, start_time, end_time>>]
    /\ result' = IF Raises(store_id)
                 THEN [raised |-> TRUE]
                 ELSE [raised |-> FALSE,
                       value |-> calculate_uptime_downtime(store_id, start_time, end_time)]
    /\ UNCHANGED <<dbVars, jobVars>>

\* Minutes of day calculate_overlap is called with.
OverlapMinutes == {0, 1, 9 * 60, 10 * 60, 17 * 60, 23 * 60 + 59, 24 * 60}

InitOverlap ==
    /\ store_status = {}
    /\ business_hours = {}
    /\ store_timezone = <<>>
    /\ InitJobs
    /\ InitCalls

NextOverlap ==
    \E bs, be, is, ie \in OverlapMinutes : CallOverlap(bs, be, is, ie)

SpecOverlap == InitOverlap /\ [][NextOverlap]_vars

InitEstimator ==
    /\ store_status \in StatusRows("s1", CallTimes)
    /\ business_hours \in HoursRows("s1")
    /\ store_timezone \in TimezoneRows("s1")
    /\ InitJobs
    /\ InitCalls

NextEstimator ==
    \E start_time, end_time \in CallTimes :
        CallUptimeDowntime("s1", start_time, end_time)

SpecEstimator == InitEstimator /\ [][NextEstimator]_vars

-----------------------------------------------------------------------------
(* Scheduled-open minutes of a window, counted without calculate_overlap *)

\* Minutes common to [from, to) and [x, y).
Common(from, to, x, y) ==
    LET lo == IF from > x THEN from ELSE x
        hi == IF to < y THEN to ELSE y
    IN  IF hi > lo THEN hi - lo ELSE 0

\* Open minutes of the local days d, d+1, ..., last within the wall-clock
\* span [wall_from, wall_to).
RECURSIVE OpenOnDays(_, _, _, _, _)
OpenOnDays(store_id, d, last, wall_from, wall_to) ==
    IF d > last THEN 0
    ELSE LET bh == get_business_hours(store_id, d % 7)
         IN  Common(Day(d) + bh[1], Day(d) + bh[2],
                    Max(wall_from, Day(d)), Min(wall_to, Day(d + 1)))
             + OpenOnDays(store_id, d + 1, last, wall_from, wall_to)

\* Open minutes within the instants [from, to), over which the zone's UTC
\* offset is the constant offset.
OpenAtOffset(store_id, from, to, offset) ==
    IF from >= to THEN 0
    ELSE OpenOnDays(store_id, (from + offset) \div DayMinutes,
                    (to + offset) \div DayMinutes, from + offset, to + offset)

\* The minutes of the window [start_time, end_time) that lie within the
\* store's business hours, each counted once: the window is cut where the
\* zone's offset changes.
ScheduledOpenMinutes(store_id, start_time, end_time) ==
    LET tz == get_store_timezone(store_id)
        cut == IF /\ tz = "America/Chicago"
                  /\ start_time < ChicagoDstStart
                  /\ ChicagoDstStart < end_time
               THEN ChicagoDstStart
               ELSE end_time
    IN  OpenAtOffset(store_id, start_time, cut, UtcOffset(tz, start_time))
        + OpenAtOffset(store_id, cut, end_time, UtcOffset(tz, cut))

-----------------------------------------------------------------------------
(* Properties of the direct calls *)

Returned(fn) == call.fn = fn /\ ~result.raised

HasNoRule(store_id) == \A r \in business_hours : r.store_id # store_id
HasNoObservation(store_id) == \A r \in store_status : r.store_id # store_id

\* C1: for a store with no business-hours rule and no observation,
\* calculate_uptime_downtime over a 24-hour window returns uptime = 0 and
\* downtime = 1440.
C1_NoDataDayIsAllDowntime ==
    (/\ Returned("calculate_uptime_downtime")
     /\ HasNoRule(call.args[1])
     /\ HasNoObservation(call.args[1])
     /\ call.args[3] = call.args[2] + DayMinutes)
    => (result.value.uptime = 0 /\ result.value.downtime = 24 * 60)

\* C3: for every window with start <= end, the returned uptime and downtime
\* are not negative and together do not exceed the scheduled-open minutes
\* that lie inside the window.
C3_WithinScheduledOpenMinutes ==
    Returned("calculate_uptime_downtime")
    => (/\ result.value.uptime >= 0
        /\ result.value.downtime >= 0
        /\ result.value.uptime + result.value.downtime
              <= ScheduledOpenMinutes(call.args[1], call.args[2], call.args[3]))

\* The same bound for the stores whose zone keeps one UTC offset.
WithinScheduledOpenMinutesFixedOffset ==
    (Returned("calculate_uptime_downtime")
     /\ get_store_timezone(call.args[1]) = "UTC")
    => (/\ result.value.uptime >= 0
        /\ result.value.downtime >= 0
        /\ result.value.uptime + result.value.downtime
              <= ScheduledOpenMinutes(call.args[1], call.args[2], call.args[3]))

\* C10: for 0 <= business_start <= business_end <= 1440 and
\* interval_start <= interval_end within a day, calculate_overlap returns the
\* number of minutes the two spans share, which is at least 0 and at most
\* the length of the shorter span.
C10_OverlapValueAndRange ==
    (/\ Returned("calculate_overlap")
     /\ call.args[1] <= call.args[2]
     /\ call.args[3] <= call.args[4])
    => (/\ result.value = Common(call.args[1], call.args[2], call.args[3], call.args[4])
        /\ result.value >= 0
        /\ result.value <= call.args[2] - call.args[1]
        /\ result.value <= call.args[4] - call.args[3])

\* The business hours and the interval overlap in part: neither contains
\* the other, and the overlap is positive.
C10_PartialOverlapReturned ==
    /\ Returned("calculate_overlap")
    /\ call.args[1] < call.args[3]
    /\ call.args[3] < call.args[2]
    /\ call.args[2] < call.args[4]
    /\ result.value = call.args[2] - call.args[3]

-----------------------------------------------------------------------------
(* generate_store_report *)

\* minutes / 60: true division, kept as the fraction.
Hours(minutes) == [num |-> minutes, den |-> 60]

StoreRaises(store_id) == Raises(store_id)

generate_store_report(store_id, now) ==
    LET Row(last_hour, last_day, last_week) ==
            [store_id |-> store_id,
             uptime_last_hour |-> last_hour.uptime,
             uptime_last_day |-> Hours(last_day.uptime),
             uptime_last_week |-> Hours(last_week.uptime),
             downtime_last_hour |-> last_hour.downtime,
             downtime_last_day |-> Hours(last_day.downtime),
             downtime_last_week |-> Hours(last_week.downtime)]
    IN  Only({Row(last_hour, last_day, last_week) :
                 last_hour \in {calculate_uptime_downtime(store_id, now - 60, now)},
                 last_day \in {calculate_uptime_downtime(store_id, now - DayMinutes, now)},
                 last_week \in {calculate_uptime_downtime(store_id, now - 7 * DayMinutes,
                                                          now)}})

-----------------------------------------------------------------------------
(* The report jobs: trigger_report, the executor's worker, get_report *)

\* Python's None, and a value that is not None.
None == <<>>
Some(x) == <<x>>

Terminal == {"Complete", "Error"}

NewReport_error == [status |-> "Error", filename |-> None]

\* Report(): status defaults to 'Running', filename to NULL.
NewReport == [status |-> "Running", filename |-> None]

\* uuid.uuid4(): an id no report has yet; ids are numbered as they are made.
NewReportId == Cardinality(DOMAIN reports) + 1

ReportIds == 1..MaxJobs

trigger_report ==
    /\ NewReportId <= MaxJobs
    /\ reports' = [id \in DOMAIN reports \cup {NewReportId} |->
                      IF id = NewReportId THEN NewReport ELSE reports[id]]
    /\ queue' = Append(queue, NewReportId)
    /\ UNCHANGED <<dbVars, workers, files, runs, polled, call, result>>

\* db.func.max(StoreStatus.timestamp_utc): None over an empty table.
max_timestamp ==
    IF store_status = {} THEN None
    ELSE Some(CHOOSE t \in {r.timestamp_utc : r \in store_status} :
                  \A r \in store_status : r.timestamp_utc <= t)

IsMissing_never(value) == FALSE

\* if not max_timestamp_utc
IsMissing(value) == value = None

\* The distinct store ids, in each order the query may return them.
DistinctStoreIds ==
    LET ids == {r.store_id : r \in store_status}
    IN  {order \in [1..Cardinality(ids) -> ids] :
            \A a, b \in DOMAIN order : order[a] = order[b] => a = b}

batch_size == 100

Batch(frame) ==
    SubSeq(frame.store_ids, frame.i + 1,
           Min(frame.i + batch_size, Len(frame.store_ids)))

SetError_skipped(report_id) == reports

\* report.status = 'Error'; db.session.commit()
SetError(report_id) == [reports EXCEPT ![report_id].status = "Error"]

SetComplete_no_filename(report_id, name) ==
    [reports EXCEPT ![report_id].status = "Complete"]

\* report.status = 'Complete'; report.filename = ...; db.session.commit()
SetComplete(report_id, name) ==
    [reports EXCEPT ![report_id] = [status |-> "Complete", filename |-> Some(name)]]

Dequeued_left(q) == q

\* The work item a worker takes leaves the executor's queue.
Dequeued(q) == Tail(q)

\* tempfile.NamedTemporaryFile: a name no earlier file has.
TempName == Cardinality(files) + 1

NoteRun(report_id) ==
    Append(runs, [report_id |-> report_id, computed |-> <<>>, raised |-> None])

\* A worker thread takes the next job and runs generate_report_and_update_db
\* up to its loop over the stores.
RunStart(w) ==
    /\ workers[w].pc = "idle"
    /\ queue # <<>>
    /\ LET report_id == Head(queue)
           max_timestamp_utc == max_timestamp
       IN  /\ queue' = Dequeued(queue)
           /\ runs' = NoteRun(report_id)
           /\ IF IsMissing(max_timestamp_utc)
              THEN /\ reports' = SetError(report_id)
                   /\ workers' = [workers EXCEPT ![w] = IdleFrame]
              ELSE /\ \E store_ids \in DistinctStoreIds :
                         workers' = [workers EXCEPT ![w] =
                             [pc |-> IF Len(store_ids) = 0 THEN "save" ELSE "batch",
                              run |-> Len(runs) + 1,
                              report_id |-> report_id,
                              max_timestamp_utc |-> max_timestamp_utc,
                              store_ids |-> store_ids,
                              i |-> 0,
                              batch_results |-> <<>>,
                              all_results |-> <<>>]]
                   /\ UNCHANGED reports
    /\ UNCHANGED <<dbVars, files, polled, call, result>>

\* One element of the list comprehension over a batch: generate_store_report
\* for the next store. An exception leaves the loop for the except clause.
StoreReport(w) ==
    /\ workers[w].pc = "batch"
    /\ \E frame \in {workers[w]} :
       \E batch \in {Batch(frame)} :
       \E store_id \in {batch[Len(frame.batch_results) + 1]} :
          /\ runs' = [runs EXCEPT ![frame.run].computed = Append(@, store_id),
                                  ![frame.run].raised =
                                      IF StoreRaises(store_id) THEN Some(store_id) ELSE @]
          /\ IF StoreRaises(store_id)
             THEN /\ reports' = SetError(frame.report_id)
                  /\ workers' = [workers EXCEPT ![w] = IdleFrame]
             ELSE \E row \in {generate_store_report(store_id,
                                                    frame.max_timestamp_utc[1])} :
                  \E batch_results \in {Append(frame.batch_results, row)} :
                  \E batch_done \in {Len(batch_results) = Len(batch)} :
                  \E i \in {IF batch_done THEN frame.i + batch_size ELSE frame.i} :
                     /\ reports' = reports
                     /\ workers' = [workers EXCEPT ![w] =
                            [frame EXCEPT
                               !.batch_results = IF batch_done THEN <<>> ELSE batch_results,
                               !.all_results = IF batch_done THEN @ \o batch_results ELSE @,
                               !.i = i,
                               !.pc = IF batch_done /\ i >= Len(frame.store_ids)
                                      THEN "save" ELSE "batch"]]
    /\ UNCHANGED <<dbVars, queue, files, polled, call, result>>

\* The DataFrame is written to a new temporary file and the report is set to
\* Complete; when the file cannot be written the except clause runs.
SaveReport(w) ==
    /\ workers[w].pc = "save"
    /\ LET frame == workers[w]
       IN  \E written \in BOOLEAN :
              IF written
              THEN /\ files' = files \cup {[name |-> TempName,
                                            rows |-> frame.all_results]}
                   /\ reports' = SetComplete(frame.report_id, TempName)
                   /\ runs' = runs
              ELSE /\ files' = files
                   /\ reports' = SetError(frame.report_id)
                   /\ runs' = [runs EXCEPT ![frame.run].raised = Some("to_csv")]
    /\ workers' = [workers EXCEPT ![w] = IdleFrame]
    /\ UNCHANGED <<dbVars, queue, polled, call, result>>

WorkerStep == \E w \in 1..max_workers : RunStart(w) \/ StoreReport(w) \/ SaveReport(w)

\* What get_report answers for a report id.
Response(report_id) ==
    IF report_id \notin DOMAIN reports
    THEN [code |-> 404, status |-> "NotFound", filename |-> None]
    ELSE LET report == reports[report_id]
         IN  CASE report.status = "Running" ->
                    [code |-> 200, status |-> "Running", filename |-> None]
               [] report.status = "Error" ->
                    [code |-> 500, status |-> "Error", filename |-> None]
               [] report.status = "Complete" ->
                    IF \E f \in files : Some(f.name) = report.filename
                    THEN [code |-> 200, status |-> "Complete",
                          filename |-> report.filename]
                    ELSE [code |-> 500, status |-> "Error", filename |-> None]
               [] OTHER ->
                    [code |-> 500, status |-> "Unknown", filename |-> None]

get_report(report_id) ==
    /\ polled' = [id \in DOMAIN polled \cup {report_id} |->
                     IF id = report_id THEN Response(report_id) ELSE polled[id]]
    /\ UNCHANGED <<dbVars, reports, queue, workers, files, runs, call, result>>

\* The tables the jobs run over: up to MaxObs of these three rows, for two
\* stores on Monday 2023-03-06; Monday hours for s1; s2 in the default zone
\* or with a timezone row that names no zone.
CandidateStatus ==
    {[store_id |-> "s1", timestamp_utc |-> At(14, 10, 0), status |-> "active"],
     [store_id |-> "s1", timestamp_utc |-> At(14, 16, 30), status |-> "inactive"],
     [store_id |-> "s2", timestamp_utc |-> At(14, 16, 0), status |-> "active"]}

Init ==
    /\ store_status \in {R \in SUBSET CandidateStatus : Cardinality(R) <= MaxObs}
    /\ business_hours = {HoursRow("s1", 0, <<9, 0, 0>>, <<17, 0, 0>>)}
    /\ store_timezone \in {<<>>, [s \in {"s2"} |-> "Mars/Phobos"]}
    /\ InitJobs
    /\ InitCalls

Next ==
    \/ trigger_report
    \/ WorkerStep
    \/ \E report_id \in DOMAIN reports : get_report(report_id)

Spec == Init /\ [][Next]_vars

\* The executor's worker thread keeps running while it has work.
FairSpec == Spec /\ WF_vars(WorkerStep)

-----------------------------------------------------------------------------
(* Properties of the report jobs *)

Busy == {w \in DOMAIN workers : workers[w].pc # "idle"}

StoreIdsOf(rows) == {rows[k].store_id : k \in DOMAIN rows}

ArtifactOf(report_id) ==
    {f \in files : Some(f.name) = reports[report_id].filename}

\* C2: when the computation of one store's report raises during a run, the
\* job does not end in Error: it ends in Complete, and its artifact holds
\* one row for every other store.
C2_FailingStoreIsSkipped ==
    \A k \in DOMAIN runs :
        LET report_id == runs[k].report_id
            failed == {s \in Stores : runs[k].raised = Some(s)}
        IN  failed # {} =>
               /\ reports[report_id].status # "Error"
               /\ reports[report_id].status = "Complete" =>
                     \E f \in ArtifactOf(report_id) :
                        /\ StoreIdsOf(f.rows)
                              = {r.store_id : r \in store_status} \ failed
                        /\ Len(f.rows) = Cardinality(StoreIdsOf(f.rows))

\* C4: once a report's stored status is Complete or Error, no step changes
\* its status or its filename.
C4_TerminalIsImmutable ==
    [][\A id \in DOMAIN reports :
          reports[id].status \in Terminal => reports'[id] = reports[id]]_vars

\* A Complete report that has been polled, next to a second report that has
\* reached its terminal state after it.
C4_TerminalThenLaterRun ==
    \E a, b \in DOMAIN reports :
        /\ a < b
        /\ reports[a].status = "Complete"
        /\ a \in DOMAIN polled
        /\ reports[b].status \in Terminal

\* C5: a poll of a job still in the executor's queue answers Running; once a
\* poll has answered Complete (with its filename) or Error, every later poll
\* of that job answers the same; and a poll changes no report nor file.
C5_PollsAreStable ==
    /\ [](\A k \in DOMAIN queue : Response(queue[k]).status = "Running")
    /\ [][\A id \in DOMAIN polled :
             polled[id].status \in Terminal => polled'[id] = polled[id]]_vars
    /\ [][polled' # polled => (reports' = reports /\ files' = files)]_vars

\* One job polled Complete with its filename, another polled Running while it
\* waits in the queue.
C5_PolledCompleteAndQueued ==
    \E a, b \in DOMAIN polled :
        /\ polled[a].status = "Complete"
        /\ polled[a].filename # None
        /\ \E k \in DOMAIN queue : queue[k] = b
        /\ polled[b].status = "Running"

\* C6: a report has a filename if and only if its status is Complete.
C6_FilenameIffComplete ==
    \A id \in DOMAIN reports :
        reports[id].filename # None <=> reports[id].status = "Complete"

\* A Complete report with its filename next to an Error report.
C6_CompleteAndError ==
    \E a, b \in DOMAIN reports :
        /\ reports[a].status = "Complete"
        /\ reports[a].filename # None
        /\ reports[b].status = "Error"

\* C7: at most one run is in progress; runs start in the order of
\* submission, each after every earlier run has reached a terminal state;
\* and trigger_report can be taken whatever the worker is doing.
C7_OneSerialWorker ==
    /\ Cardinality(Busy) <= 1
    /\ \A k \in DOMAIN runs : runs[k].report_id = k
    /\ \A k \in 1..(Len(runs) - 1) : reports[runs[k].report_id].status \in Terminal
    /\ NewReportId <= MaxJobs => ENABLED trigger_report

\* A run is in progress while a later job waits in the queue.
C7_RunInProgressWithQueue ==
    /\ Busy # {}
    /\ queue # <<>>
    /\ \A w \in Busy : workers[w].report_id < Head(queue)

Started(report_id) == \E k \in DOMAIN runs : runs[k].report_id = report_id

Finished(report_id) ==
    report_id \in DOMAIN reports /\ reports[report_id].status \in Terminal

\* C8: under a fair worker, every job whose run has started reaches Complete
\* or Error.
C8_StartedRunsFinish ==
    \A report_id \in ReportIds : Started(report_id) ~> Finished(report_id)

\* A run that raised, in a store's report or in writing the file, has left
\* its job in Error, and another run ended in Complete.
C8_RaisedRunEndedInError ==
    \E j, k \in DOMAIN runs :
        /\ runs[k].raised # None
        /\ reports[runs[k].report_id].status = "Error"
        /\ reports[runs[j].report_id].status = "Complete"

\* C9: a run over a dataset with no observation sets the job to Error,
\* computes no store report and records no filename nor file.
C9_NoDataIsError ==
    store_status = {} =>
        /\ Busy = {}
        /\ files = {}
        /\ \A k \in DOMAIN runs :
              /\ reports[runs[k].report_id] = [status |-> "Error", filename |-> None]
              /\ runs[k].computed = <<>>

\* A run has started over the empty dataset and its job is in Error.
C9_NoDataRunHappened ==
    /\ store_status = {}
    /\ runs # <<>>
    /\ reports[runs[1].report_id].status = "Error"

-----------------------------------------------------------------------------
(* Carry-forward of the last observation, stated from the table itself *)

ObservationsUpTo(store_id, t) ==
    {r \in store_status : r.store_id = store_id /\ r.timestamp_utc <= t}

\* The status carried forward to the instant t: that of the latest
\* observation at or before t, Inactive when there is none.
StatusAt(store_id, t) ==
    LET seen == ObservationsUpTo(store_id, t)
    IN  IF seen = {} THEN "inactive"
        ELSE (CHOOSE r \in seen :
                 \A o \in seen : o.timestamp_utc <= r.timestamp_utc).status

\* The breakpoints of a window: its two ends and the observations strictly
\* inside it.
Breakpoints(store_id, start_time, end_time) ==
    {start_time, end_time}
    \cup {r.timestamp_utc : r \in {o \in store_status :
                                      /\ o.store_id = store_id
                                      /\ o.timestamp_utc > start_time
                                      /\ o.timestamp_utc < end_time}}

\* The pairs of consecutive breakpoints.
Segments(store_id, start_time, end_time) ==
    LET points == Breakpoints(store_id, start_time, end_time)
    IN  {seg \in points \X points :
            /\ seg[1] < seg[2]
            /\ \A p \in points : ~(seg[1] < p /\ p < seg[2])}

\* The business-hours minutes the segment from instant from to instant to is
\* charged for, read on the store's wall clock.
SegmentMinutes(store_id, from, to) ==
    LET tz == get_store_timezone(store_id)
        a == astimezone(from, tz)
        b == astimezone(to, tz)
        hours_a == get_business_hours(store_id, weekday(a))
        hours_b == get_business_hours(store_id, weekday(b))
    IN  IF date(a) = date(b)
        THEN Common(hours_a[1], hours_a[2], MinuteOfDay(a), MinuteOfDay(b))
        ELSE Common(hours_a[1], hours_a[2], MinuteOfDay(a), 23 * 60 + 59)
             + Common(hours_b[1], hours_b[2], 0, MinuteOfDay(b))

RECURSIVE MinutesOf(_, _)
MinutesOf(store_id, segs) ==
    IF segs = {} THEN 0
    ELSE LET seg == CHOOSE x \in segs : TRUE
         IN  SegmentMinutes(store_id, seg[1], seg[2])
             + MinutesOf(store_id, segs \ {seg})

\* The minutes of the window's segments whose left endpoint carries status.
CarriedMinutes(store_id, start_time, end_time, status) ==
    MinutesOf(store_id,
              {seg \in Segments(store_id, start_time, end_time) :
                  StatusAt(store_id, seg[1]) = status})

\* Timezone UTC, Monday hours 09:00-17:00 and the single observation
\* (Monday 10:00, active); the call is over Monday 09:00 to 11:00.
CarryForwardScenario ==
    /\ store_timezone = [s \in {"s1"} |-> "UTC"]
    /\ business_hours = {HoursRow("s1", 0, <<9, 0, 0>>, <<17, 0, 0>>)}
    /\ store_status = {[store_id |-> "s1", timestamp_utc |-> At(14, 10, 0),
                        status |-> "active"]}
    /\ call = [fn |-> "calculate_uptime_downtime",
               args |-> <<"s1", At(14, 9, 0), At(14, 11, 0)>>]

\* C11: when the store has an observation at or before the window's end,
\* every segment between consecutive breakpoints is credited with the status
\* of its left endpoint, which for the first segment is that of the latest
\* observation at or before the window's start, or Inactive; in the
\* carry-forward scenario the result is uptime = 60, downtime = 60.
C11_LeftEndpointStatusCarried ==
    (/\ Returned("calculate_uptime_downtime")
     /\ ObservationsUpTo(call.args[1], call.args[3]) # {})
    => (/\ result.value.uptime
              = CarriedMinutes(call.args[1], call.args[2], call.args[3], "active")
        /\ result.value.downtime
              = CarriedMinutes(call.args[1], call.args[2], call.args[3], "inactive")
        /\ CarryForwardScenario
              => result.value = [uptime |-> 60, downtime |-> 60])

\* The carry-forward scenario has been computed: an hour of each.
C11_ScenarioComputed ==
    /\ CarryForwardScenario
    /\ ~result.raised
    /\ result.value = [uptime |-> 60, downtime |-> 60]

-----------------------------------------------------------------------------
(* Segments that cross a day boundary *)

\* The call's window is one segment: no observation lies strictly inside it,
\* and the store has an observation at or before its end.
OneSegmentCall ==
    /\ Returned("calculate_uptime_downtime")
    /\ ObservationsUpTo(call.args[1], call.args[3]) # {}
    /\ Breakpoints(call.args[1], call.args[2], call.args[3])
          = {call.args[2], call.args[3]}

\* The local calendar days between the dates of the window's two ends.
DaysApart ==
    LET tz == get_store_timezone(call.args[1])
    IN  date(astimezone(call.args[3], tz)) - date(astimezone(call.args[2], tz))

\* C13: a segment whose ends fall on different local dates is charged for
\* two spans only, from its start to 23:59 against the hours of the start
\* date's weekday and from 00:00 to its end against the hours of the end
\* date's weekday, both credited with the status of its left endpoint; the
\* days strictly between the two dates add nothing.
C13_DayBoundarySplitInTwo ==
    (OneSegmentCall /\ DaysApart >= 1)
    => LET store_id == call.args[1]
           tz == get_store_timezone(store_id)
           a == astimezone(call.args[2], tz)
           b == astimezone(call.args[3], tz)
           hours_a == get_business_hours(store_id, weekday(a))
           hours_b == get_business_hours(store_id, weekday(b))
           first_day == Common(hours_a[1], hours_a[2], MinuteOfDay(a), 23 * 60 + 59)
           last_day == Common(hours_b[1], hours_b[2], 0, MinuteOfDay(b))
           credited == IF StatusAt(store_id, call.args[2]) = "active"
                       THEN [uptime |-> first_day + last_day, downtime |-> 0]
                       ELSE [uptime |-> 0, downtime |-> first_day + last_day]
       IN  /\ result.value = credited
           /\ result.value.uptime + result.value.downtime
                 <= (23 * 60 + 59 - MinuteOfDay(a)) + MinuteOfDay(b)

\* A one-segment call whose ends are at least two days apart, over days with
\* different business hours, charged on its first and on its last day.
C13_SplitAcrossSeveralDays ==
    /\ OneSegmentCall
    /\ DaysApart >= 2
    /\ ~HasNoRule(call.args[1])
    /\ result.value.uptime + result.value.downtime > 10 * 60

====
